---- MODULE Spec2Model ----
(***************************************************************************)
(* DroneDB index operations (src/src/dbops.cpp): addToIndex,               *)
(* removeFromIndex, syncIndex and moveEntry acting on the entries table of *)
(* one working tree, together with the files of that tree and the build    *)
(* folders under .ddb/build.                                               *)
(*                                                                         *)
(* Paths are sequences of one-character strings, so that the LIKE          *)
(* patterns, the substring rewrites of moveEntry and the string functions  *)
(* of the folder consistency query are computed character by character.    *)
(***************************************************************************)
EXTENDS Integers, Sequences, FiniteSets, TLC

\* ------------------------------------------------------------------ bounds

\* Largest modification time a file of the tree takes.
MaxMtime == 2
\* Largest value of the last-edit stamp (number of setLastUpdate calls).
MaxEdits == 3
\* Longest query handed to deleteFromIndex on its own, and longest path of
\* the row it is matched against.
MaxQuery == 3
MaxPath == 2
\* The largest recursion depth handed to match and to the path expansion.
MaxDepth == 2

\* ----------------------------------------------------------------- strings

IsPrefix(p, s) == Len(p) <= Len(s) /\ SubSeq(s, 1, Len(p)) = p

Drop(s, n) == SubSeq(s, n + 1, Len(s))

RECURSIVE ReplaceAll(_, _, _)
\* utils::string_replace and SQL replace(): every non-overlapping occurrence
\* of from, left to right; an empty from leaves the string as it is.
ReplaceAll(s, from, to) ==
    IF from = <<>> \/ Len(s) < Len(from) THEN s
    ELSE IF IsPrefix(from, s) THEN to \o ReplaceAll(Drop(s, Len(from)), from, to)
    ELSE <<Head(s)>> \o ReplaceAll(Tail(s), from, to)

RECURSIVE RTrimSet(_, _)
\* SQL rtrim(s, chars): drops trailing characters that occur in chars.
RTrimSet(s, chars) ==
    IF s # <<>> /\ s[Len(s)] \in chars THEN RTrimSet(SubSeq(s, 1, Len(s) - 1), chars)
    ELSE s

RECURSIVE LTrimSet(_, _)
LTrimSet(s, chars) ==
    IF s # <<>> /\ Head(s) \in chars THEN LTrimSet(Tail(s), chars)
    ELSE s

\* SQL TRIM(s, chars).
TrimSet(s, chars) == LTrimSet(RTrimSet(s, chars), chars)

Chars(s) == {s[i] : i \in 1..Len(s)}

\* Escape character of "LIKE ? ESCAPE '/'"; NoEscape for a plain LIKE.
EscapeChar == "/"
NoEscape == ""

RECURSIVE Like(_, _, _)
\* SQL "s LIKE pat [ESCAPE esc]": % matches any run, _ one character, the
\* escape character makes the next pattern character literal.
Like(pat, s, esc) ==
    IF pat = <<>> THEN s = <<>>
    ELSE IF Head(pat) = esc THEN
        /\ Len(pat) >= 2
        /\ s # <<>>
        /\ Head(s) = pat[2]
        /\ Like(Drop(pat, 2), Tail(s), esc)
    ELSE IF Head(pat) = "%" THEN
        \E k \in 0..Len(s) : Like(Tail(pat), Drop(s, k), esc)
    ELSE IF Head(pat) = "_" THEN
        s # <<>> /\ Like(Tail(pat), Tail(s), esc)
    ELSE
        s # <<>> /\ Head(s) = Head(pat) /\ Like(Tail(pat), Tail(s), esc)

\* Number of '/' in a path.
CountSlash(p) == Cardinality({i \in 1..Len(p) : p[i] = "/"})

\* io::Path::depth(), used by replacePath and addFolder.
Depth(p) == CountSlash(p)

\* The proper '/'-separated prefixes of a path.
Ancestors(p) == {SubSeq(p, 1, i - 1) : i \in {j \in 1..Len(p) : p[j] = "/"}}

Perms(S) ==
    {q \in [1..Cardinality(S) -> S] : \A i, j \in 1..Cardinality(S) : q[i] = q[j] => i = j}

\* ------------------------------------------------------------------- files

P_a == <<"a">>
P_af == <<"a", "/", "f">>
P_g == <<"g">>
P_abf == <<"a", "/", "b", "/", "f">>
P_abg == <<"a", "/", "b", "/", "g">>
P_c == <<"c">>
P_cd == <<"c", "/", "d">>
\* The working root itself (its path relative to the root) and the marker
\* directory of the tree with the database file in it.
P_root == <<>>
DDB_FOLDER == <<".", "d", "d", "b">>
P_ddbx == DDB_FOLDER \o <<"/", "x">>
P_u == <<"_">>
P_uh == <<"_", "/", "h">>
P_ab == <<"a", "/", "b">>
\* Inputs of addToIndex that name no path of the tree: the empty string, a
\* path outside the working root, and a missing path whose filename is .ddb.
EmptyInput == <<"">>
P_out == <<".", ".", "/", "z">>
P_a_ddb == P_a \o <<"/">> \o DDB_FOLDER

\* The files of the working tree: the root, a directory a holding the file
\* a/f, the file g, a directory _ holding the file _/h, and .ddb holding
\* .ddb/x; a/b and a/b/f exist in the deeper tree only (see InitAdd).  They
\* are listed in the order a recursive walk meets them.
FsOrder == <<P_root, P_a, P_af, P_ab, P_abf, P_g, P_u, P_uh, DDB_FOLDER, P_ddbx>>
FsPaths == {FsOrder[i] : i \in 1..Len(FsOrder)}

NoFile == [kind |-> "none", content |-> 0, mtime |-> 0]
DirNode == [kind |-> "dir", content |-> 0, mtime |-> 1]
FileNode(c, m) == [kind |-> "file", content |-> c, mtime |-> m]

EmptyHash == ""
\* Hash::fileSHA256: one digest per file content.
FileHash(c) == IF c = 1 THEN "h1" ELSE IF c = 2 THEN "h2" ELSE "h3"
Hashes == {"h1", "h2", "h3"}

Directory == "Directory"
Generic == "Generic"
NullMeta == "null"
FileMeta == "{}"
NoGeom == ""

VARIABLES
    fs,         \* the files of the working tree
    build,      \* hashes h for which .ddb/build/h exists
    rows,       \* the entries table as the open handle sees it
    committed,  \* the entries table as committed (what another reader sees)
    txn,        \* the handle has an open transaction
    lastEdit,   \* the last-edit stamp
    pc,         \* position of the running operation; "idle" when none runs
    op,         \* the running (or just returned) operation's locals
    prev        \* the last returned operation, while no file changed since it began

vars == <<fs, build, rows, committed, txn, lastEdit, pc, op, prev>>

Exists(p) == p \in FsPaths /\ fs[p].kind # "none"
IsDirectory(p) == p \in FsPaths /\ fs[p].kind = "dir"

\* fs::path::filename(): the part after the last '/'.
Filename(p) ==
    LET slashes == {i \in 1..Len(p) : p[i] = "/"} IN
    IF slashes = {} THEN p
    ELSE Drop(p, CHOOSE i \in slashes : \A j \in slashes : j <= i)

\* p lies below the directory d.
Below(d, p) == IF d = P_root THEN p # P_root ELSE IsPrefix(d \o <<"/">>, p)

\* fs::recursive_directory_iterator(d) with disable_recursion_pending() on
\* every .ddb it meets: the existing paths below d that have no .ddb above
\* them.
Walk(d) ==
    SelectSeq(FsOrder, LAMBDA p : /\ Below(d, p)
                                  /\ Exists(p)
                                  /\ \A q \in Ancestors(p) : Filename(q) # DDB_FOLDER)

SeqToSet(s) == {s[i] : i \in 1..Len(s)}

\* ------------------------------------------------------------------- store

Entry(path, hash, type, meta, mtime, size, depth) ==
    [path |-> path, hash |-> hash, type |-> type, meta |-> meta, mtime |-> mtime,
     size |-> size, depth |-> depth, point_geom |-> NoGeom, polygon_geom |-> NoGeom]

HasRow(t, p) == \E e \in t : e.path = p
RowAt(t, p) == CHOOSE e \in t : e.path = p
PathsOf(t) == {e.path : e \in t}

\* parseEntry(p, root, e, true) of an existing path: a directory gets an
\* empty hash, null meta and size 0; a file its digest, size and stat mtime;
\* depth is the number of '/' of the relative path.
parseEntry(p) ==
    IF fs[p].kind = "dir"
    THEN Entry(p, EmptyHash, Directory, NullMeta, fs[p].mtime, 0, CountSlash(p))
    ELSE Entry(p, FileHash(fs[p].content), Generic, FileMeta, fs[p].mtime,
               fs[p].content, CountSlash(p))

\* A statement run by the handle: inside a transaction it changes the
\* handle's view only, outside one it is committed at once.
Committed(t) == IF txn THEN committed ELSE t

\* checkUpdate that hashes the file whatever its mtime.
checkUpdate_alwaysHashes(p, dbMtime, dbHash) ==
    IF ~Exists(p) THEN "Deleted"
    ELSE IF IsDirectory(p) THEN "NotModified"
    ELSE IF dbHash # FileHash(fs[p].content) THEN "Modified"
    ELSE "NotModified"

\* checkUpdate(e, p, dbMtime, dbHash).
checkUpdate(p, dbMtime, dbHash) ==
    IF ~Exists(p) THEN "Deleted"
    ELSE IF IsDirectory(p) THEN "NotModified"
    ELSE IF fs[p].mtime # dbMtime /\ dbHash # FileHash(fs[p].content) THEN "Modified"
    ELSE "NotModified"

\* checkUpdate calls Hash::fileSHA256: the path is a file whose mtime
\* differs from the stored one.
HashesFile(p, dbMtime) == Exists(p) /\ ~IsDirectory(p) /\ fs[p].mtime # dbMtime

\* NeedsUpdate with the comparison turned round.
NeedsUpdate_inverted(status) == status # "Modified"

\* addToIndex: "update = status != FileStatus::NotModified".
NeedsUpdate(status) == status # "NotModified"

\* doUpdate that leaves the stored mtime as it was.
doUpdate_keepsMtime(t, e) ==
    {x \in t : x.path # e.path} \cup
    (IF HasRow(t, e.path) THEN {[e EXCEPT !.mtime = RowAt(t, e.path).mtime]} ELSE {})

\* doUpdate whose WHERE clause matches no row.
doUpdate_noMatch(t, e) == t

\* doUpdate: UPDATE entries SET hash, type, meta, mtime, size, depth, geoms
\* WHERE path = e.path.
doUpdate(t, e) == {x \in t : x.path # e.path} \cup (IF HasRow(t, e.path) THEN {e} ELSE {})

\* checkDeleteBuild(db, hash).
checkDeleteBuild(b, hash) == IF hash # EmptyHash THEN b \ {hash} ELSE b

\* ------------------------------------------------------- running operation

NoOp ==
    [name |-> "none", outcome |-> "none", began |-> FALSE, paths |-> <<>>,
     queue |-> <<>>, todo |-> {}, calls |-> <<>>, callback |-> FALSE,
     pre |-> {}, preEdit |-> 0, ins |-> {}, upd |-> {}, del |-> {}, cbs |-> 0,
     out |-> <<>>, folders |-> {}, dirty |-> FALSE, changed |-> FALSE,
     hash |-> EmptyHash, cur |-> <<>>, count |-> 0, tot |-> 0, destExists |-> FALSE,
     refused |-> FALSE, list |-> <<>>, seen |-> <<>>, called |-> <<>>,
     reparsed |-> {}, traverseUp |-> FALSE, trees |-> {}, broken |-> {},
     maxDepth |-> 0, recursive |-> FALSE, isFolder |-> FALSE]

NoPrev == [name |-> "none", paths |-> <<>>, pre |-> {}, folders |-> {}, order |-> <<>>]

StartOp(name, paths) ==
    [NoOp EXCEPT !.name = name, !.outcome = "running", !.paths = paths,
                 !.pre = rows, !.preEdit = lastEdit]

\* A call starts on a handle that has no transaction open: a caller whose
\* call left one open (see Reopen) closes the handle before it goes on.  No
\* statement of such a handle can commit (BEGIN fails inside a transaction),
\* so the committed table is the same without those calls.
CanCall ==
    /\ pc = "idle"
    /\ ~txn
    /\ lastEdit < MaxEdits

\* The call returns (or throws) with the given outcome.
Finish(o, outcome) ==
    /\ pc' = "done"
    /\ op' = [o EXCEPT !.outcome = outcome]

\* --------------------------------------------------------------- addToIndex

\* getIndexPathList(root, paths, true): the files in walk order, then the
\* directories met (a set: they are kept in an unordered_map).
\* An input whose filename is .ddb is skipped.
IndexFiles(p) ==
    IF Filename(p) = DDB_FOLDER THEN <<>>
    ELSE IF IsDirectory(p) THEN SelectSeq(Walk(p), LAMBDA q : ~IsDirectory(q))
    ELSE <<p>>

\* IndexDirs that gives a file its parent directory only.
IndexDirs_parentOnly(p) ==
    IF Filename(p) = DDB_FOLDER THEN {}
    ELSE IF IsDirectory(p)
    THEN {p} \cup {q \in SeqToSet(Walk(p)) : IsDirectory(q)}
         \cup UNION {Ancestors(q) : q \in SeqToSet(Walk(p))}
    ELSE {q \in Ancestors(p) : \A r \in Ancestors(p) : Len(r) <= Len(q)}

IndexDirs(p) ==
    IF Filename(p) = DDB_FOLDER THEN {}
    ELSE IF IsDirectory(p)
    THEN {p} \cup {q \in SeqToSet(Walk(p)) : IsDirectory(q)}
         \cup UNION {Ancestors(q) : q \in SeqToSet(Walk(p))}
    ELSE Ancestors(p)

RECURSIVE ListFiles(_)
ListFiles(paths) ==
    IF paths = <<>> THEN <<>> ELSE IndexFiles(Head(paths)) \o ListFiles(Tail(paths))

ListDirs(paths) == UNION {IndexDirs(paths[i]) : i \in 1..Len(paths)}

\* PathListFails that makes the check of empty inputs only.
PathListFails_emptyOnly(paths) == \E i \in 1..Len(paths) : paths[i] = EmptyInput

\* io::Path(rootDirectory).hasChildren(paths): every input lies in the
\* working root.
hasChildren(paths) == \A i \in 1..Len(paths) : ~IsPrefix(<<".", ".">>, paths[i])

\* getIndexPathList throws: "Some paths are empty", "Some paths are not
\* contained within", or "Path does not exist" in the loop, where an input
\* skipped for its filename is not looked at.
PathListFails(paths) ==
    \/ \E i \in 1..Len(paths) : paths[i] = EmptyInput
    \/ ~hasChildren(paths)
    \/ \E i \in 1..Len(paths) : Filename(paths[i]) # DDB_FOLDER /\ ~Exists(paths[i])

AddInputs == {<<P_a>>, <<P_af>>, <<P_g>>, <<P_a, P_g>>}
\* The inputs of the adds that walk the whole tree.
TreeInputs == {<<P_root>>, <<P_a>>}
\* The inputs of the adds of single files, of a directory two levels deep,
\* and of lists with an input that names no path of the tree.
FileInputs ==
    {<<P_abf>>, <<P_a>>, <<P_g, P_abf>>, <<P_g, EmptyInput>>, <<P_g, P_out>>,
     <<P_g, P_c>>, <<P_a_ddb, P_g>>}

\* MapOrders of a map that may give every call another order.
MapOrders_any(paths) == Perms(ListDirs(paths))

\* The order in which the unordered_map of getIndexPathList gives the
\* directories back: any order, but the one of the last call when that call
\* is known to have inserted the same keys in the same sequence.
MapOrders(paths) ==
    IF prev.name = "add" /\ prev.paths = paths /\ prev.order # <<>>
    THEN {SelectSeq(prev.order, LAMBDA q : q \in ListDirs(paths))}
    ELSE Perms(ListDirs(paths))

\* addToIndex up to BEGIN EXCLUSIVE TRANSACTION.
AddBegin(paths, callback) ==
    /\ CanCall
    /\ LET o == [StartOp("add", paths) EXCEPT !.callback = callback] IN
       IF PathListFails(paths)
       THEN \* getIndexPathList throws
            /\ Finish(o, "error")
            /\ UNCHANGED <<fs, build, rows, committed, txn, lastEdit, prev>>
       ELSE \E dirs \in MapOrders(paths) :
            /\ pc' = "add"
            /\ op' = [o EXCEPT !.began = TRUE, !.queue = ListFiles(paths) \o dirs,
                                !.list = ListFiles(paths) \o dirs]
            /\ txn' = TRUE
            /\ UNCHANGED <<fs, build, rows, committed, lastEdit, prev>>

\* One iteration of the loop over pathList.
AddEntry ==
    /\ pc = "add"
    /\ op.queue # <<>>
    /\ LET p == Head(op.queue)
           found == HasRow(rows, p)
           status == IF found THEN checkUpdate(p, RowAt(rows, p).mtime, RowAt(rows, p).hash)
                     ELSE "none"
           update == found /\ NeedsUpdate(status)
           add == ~found
           rest == [op EXCEPT !.queue = Tail(op.queue), !.seen = Append(@, p),
                              !.reparsed = IF update THEN @ \cup {<<p, status>>} ELSE @]
       IN
       IF ~(add \/ update)
       THEN /\ pc' = pc
            /\ op' = rest
            /\ UNCHANGED <<fs, build, rows, committed, txn, lastEdit, prev>>
       ELSE IF ~Exists(p)
       THEN \* parseEntry throws on a path that is gone
            /\ Finish(rest, "error")
            /\ UNCHANGED <<fs, build, rows, committed, txn, lastEdit, prev>>
       ELSE LET e == parseEntry(p)
                t == IF add THEN rows \cup {e} ELSE doUpdate(rows, e)
                o == IF add THEN [rest EXCEPT !.ins = @ \cup {p}]
                     ELSE [rest EXCEPT !.upd = @ \cup {p}]
            IN
            /\ rows' = t
            /\ committed' = Committed(t)
            /\ UNCHANGED <<fs, build, txn, lastEdit, prev>>
            /\ IF op.callback
               THEN \E go \in BOOLEAN :
                    IF go
                    THEN pc' = pc /\ op' = [o EXCEPT !.cbs = @ + 1, !.called = Append(@, p)]
                    ELSE Finish([o EXCEPT !.cbs = @ + 1, !.called = Append(@, p)],
                                "cancelled")
               ELSE pc' = pc /\ op' = o

\* COMMIT and setLastUpdate.
AddCommit ==
    /\ pc = "add"
    /\ op.queue = <<>>
    /\ committed' = rows
    /\ txn' = FALSE
    /\ lastEdit' = lastEdit + 1
    /\ Finish(op, "ok")
    /\ UNCHANGED <<fs, build, rows, prev>>

\* ---------------------------------------------------------- removeFromIndex

\* sanitize_query_param without the '_' substitution.
sanitize_query_param_keepsUnderscore(str) ==
    ReplaceAll(ReplaceAll(ReplaceAll(str,
        <<"/">>, <<"/", "/">>), <<"%">>, <<"/", "%">>), <<"*">>, <<"%">>)

\* sanitize_query_param(str).
sanitize_query_param(str) ==
    ReplaceAll(ReplaceAll(ReplaceAll(ReplaceAll(str,
        <<"/">>, <<"/", "/">>), <<"%">>, <<"/", "%">>), <<"_">>, <<"/", "_">>),
        <<"*">>, <<"%">>)

\* The LIKE pattern of deleteFromIndex and getMatchingEntries.
LikePattern(query, isFolder) ==
    sanitize_query_param(query) \o (IF isFolder THEN <<"/", "/", "%">> ELSE <<>>)

\* getMatchingEntries(db, path) with the default depth 0 and isFolder false.
getMatchingEntries(t, path) ==
    LET pat == IF sanitize_query_param(path) = <<>> THEN <<"%">>
               ELSE sanitize_query_param(path)
    IN {e \in t : Like(pat, e.path, EscapeChar)}

\* The rows "path LIKE ? ESCAPE '/'" selects in deleteFromIndex.
DeleteMatches(t, query, isFolder) ==
    {e \in t : Like(LikePattern(query, isFolder), e.path, EscapeChar)}

P_star == <<"*">>
RemoveInputs == {<<P_a>>, <<P_af>>, <<P_g>>, <<P_g, P_af>>, <<P_star>>}

\* removeFromIndex up to its loop over the inputs.
RemoveBegin(paths, callback) ==
    /\ CanCall
    /\ pc' = "remove"
    /\ op' = [StartOp("remove", paths) EXCEPT !.queue = paths, !.callback = callback]
    /\ UNCHANGED <<fs, build, rows, committed, txn, lastEdit, prev>>

\* The next input: its matching entries are read.
RemoveNextInput ==
    /\ pc = "remove"
    /\ op.queue # <<>>
    /\ pc' = "rmEntries"
    /\ op' = [op EXCEPT !.queue = Tail(op.queue),
                        !.todo = {[path |-> e.path, type |-> e.type] :
                                  e \in getMatchingEntries(rows, Head(op.queue))},
                        !.tot = 0]
    /\ UNCHANGED <<fs, build, rows, committed, txn, lastEdit, prev>>

\* The next matched entry: deleteFromIndex(e.path, false), and for a
\* directory deleteFromIndex(e.path, true) after it.
RemoveNextEntry ==
    /\ pc = "rmEntries"
    /\ \E e \in op.todo :
        /\ pc' = "rmScan"
        /\ op' = [op EXCEPT !.todo = @ \ {e},
                            !.calls = <<[query |-> e.path, isFolder |-> FALSE]>> \o
                                      (IF e.type = Directory
                                       THEN <<[query |-> e.path, isFolder |-> TRUE]>>
                                       ELSE <<>>)]
    /\ UNCHANGED <<fs, build, rows, committed, txn, lastEdit, prev>>

\* deleteFromIndex, the SELECT loop: checkDeleteBuild and the callback for
\* every selected row.  What the callback returns is not looked at; refused
\* records that some call of it returned false.
DeleteScan ==
    /\ pc = "rmScan"
    /\ LET c == Head(op.calls)
           m == DeleteMatches(rows, c.query, c.isFolder)
           called == IF op.callback THEN Cardinality(m) ELSE 0
       IN
       /\ build' = build \ {e.hash : e \in m}
       /\ \E no \in (IF called > 0 THEN BOOLEAN ELSE {FALSE}) :
            op' = [op EXCEPT !.count = Cardinality(m), !.cbs = @ + called,
                             !.refused = @ \/ no]
       /\ pc' = "rmExec"
    /\ UNCHANGED <<fs, rows, committed, txn, lastEdit, prev>>

\* deleteFromIndex, the DELETE statement, run when the loop counted a row.
DeleteExec ==
    /\ pc = "rmExec"
    /\ LET c == Head(op.calls)
           m == IF op.count > 0 THEN DeleteMatches(rows, c.query, c.isFolder) ELSE {}
       IN
       /\ rows' = rows \ m
       /\ committed' = Committed(rows \ m)
       /\ op' = [op EXCEPT !.calls = Tail(op.calls), !.tot = @ + op.count,
                           !.del = @ \cup PathsOf(m), !.count = 0]
       /\ pc' = IF Len(op.calls) > 1 THEN "rmScan" ELSE "rmEntries"
    /\ UNCHANGED <<fs, build, txn, lastEdit, prev>>

\* The end of one input: "if (!tot) throw".
RemoveEndInput ==
    /\ pc = "rmEntries"
    /\ op.todo = {}
    /\ IF op.tot = 0
       THEN Finish(op, "error")
       ELSE pc' = "remove" /\ op' = op
    /\ UNCHANGED <<fs, build, rows, committed, txn, lastEdit, prev>>

\* setLastUpdate after the last input.
RemoveFinish ==
    /\ pc = "remove"
    /\ op.queue = <<>>
    /\ lastEdit' = lastEdit + 1
    /\ Finish(op, "ok")
    /\ UNCHANGED <<fs, build, rows, committed, txn, prev>>

\* ---------------------------------------------------------------- syncIndex

\* syncIndex up to BEGIN EXCLUSIVE TRANSACTION; the cursor then walks the
\* rows of the table.
SyncBegin ==
    /\ CanCall
    /\ pc' = "sync"
    /\ op' = [StartOp("sync", <<>>) EXCEPT !.began = TRUE, !.todo = PathsOf(rows)]
    /\ txn' = TRUE
    /\ UNCHANGED <<fs, build, rows, committed, lastEdit, prev>>

\* One row of the cursor: checkUpdate, then the Deleted or Modified case up
\* to its row statement.
SyncEntry ==
    /\ pc = "sync"
    /\ \E p \in op.todo :
        LET r == RowAt(rows, p)
            status == checkUpdate(p, r.mtime, r.hash)
            rest == [op EXCEPT !.todo = @ \ {p}]
        IN
        CASE status = "Deleted" ->
                /\ rows' = rows \ {r}
                /\ pc' = "syncBuild"
                /\ op' = [rest EXCEPT !.hash = r.hash, !.cur = p, !.del = @ \cup {p}]
          [] status = "Modified" ->
                /\ rows' = doUpdate(rows, parseEntry(p))
                /\ pc' = pc
                /\ op' = [rest EXCEPT !.upd = @ \cup {p}, !.changed = TRUE,
                                      !.out = Append(@, <<"U", p>>)]
          [] OTHER ->
                /\ rows' = rows
                /\ pc' = pc
                /\ op' = rest
    /\ committed' = Committed(rows')
    /\ UNCHANGED <<fs, build, txn, lastEdit, prev>>

\* The Deleted case after its DELETE: checkDeleteBuild and the status line.
SyncDeleteBuild ==
    /\ pc = "syncBuild"
    /\ build' = checkDeleteBuild(build, op.hash)
    /\ pc' = "sync"
    /\ op' = [op EXCEPT !.hash = EmptyHash, !.cur = <<>>, !.changed = TRUE,
                        !.out = Append(@, <<"D", op.cur>>)]
    /\ UNCHANGED <<fs, rows, committed, txn, lastEdit, prev>>

\* SyncCommit that calls setLastUpdate whatever happened.
SyncCommit_always ==
    /\ pc = "sync"
    /\ op.todo = {}
    /\ committed' = rows
    /\ txn' = FALSE
    /\ lastEdit' = lastEdit + 1
    /\ Finish(op, "ok")
    /\ UNCHANGED <<fs, build, rows, prev>>

\* COMMIT, and setLastUpdate if something changed.
SyncCommit ==
    /\ pc = "sync"
    /\ op.todo = {}
    /\ committed' = rows
    /\ txn' = FALSE
    /\ lastEdit' = IF op.changed THEN lastEdit + 1 ELSE lastEdit
    /\ Finish(op, "ok")
    /\ UNCHANGED <<fs, build, rows, prev>>

\* ---------------------------------------------------------------- moveEntry

\* getEntry(db, path, &entry) != nullptr.
getEntry(t, path) == HasRow(t, path)

\* deleteEntry whose DELETE matches no row.
deleteEntry_noMatch(t, path) == t

\* deleteEntry(db, path).
deleteEntry(t, path) == {e \in t : e.path # path}

\* listFolderPaths(db, path): "path LIKE path/% OR path = path", no ESCAPE.
listFolderPaths(t, path) ==
    {e.path : e \in {x \in t : Like(path \o <<"/", "%">>, x.path, NoEscape) \/ x.path = path}}

\* replacePath that rewrites the path and leaves the depth.
replacePath_keepsDepth(t, source, dest) ==
    {IF e.path = source THEN [e EXCEPT !.path = dest] ELSE e : e \in t}

\* replacePath(db, source, dest): UPDATE entries SET path, depth WHERE path.
replacePath(t, source, dest) ==
    {IF e.path = source THEN [e EXCEPT !.path = dest, !.depth = Depth(dest)] ELSE e : e \in t}

\* The folder column of FOLDER_CONSISTENCY_QUERY for one path:
\* TRIM(replace(path, replace(path, rtrim(path, replace(path,'/','')), ''), ''), '/').
FolderOf(path) ==
    LET name == ReplaceAll(path, RTrimSet(path, Chars(ReplaceAll(path, <<"/">>, <<>>))), <<>>)
    IN TrimSet(ReplaceAll(path, name, <<>>), {"/"})

\* FOLDER_CONSISTENCY_QUERY: one result row for every entry that is not a
\* directory and whose folder is not the path of a directory row; given
\* here by the paths of those entries.
FolderConsistencyQuery(t) ==
    {e.path : e \in {x \in t : /\ x.type # Directory
                                /\ Len(FolderOf(x.path)) > 0
                                /\ FolderOf(x.path) \notin
                                      {d.path : d \in {y \in t : y.type = Directory}}}}

\* addFolder with mtime bound to the size column as well.
addFolder_sizeFromMtime(t, path, mtime) ==
    t \cup {[path |-> path, hash |-> EmptyHash, type |-> Directory, meta |-> NullMeta,
             mtime |-> mtime, size |-> mtime, depth |-> Depth(path),
             point_geom |-> NoGeom, polygon_geom |-> NoGeom]}

\* addFolder(db, path, mtime): CREATE_FOLDER_QUERY leaves hash and the
\* geometries unset.
addFolder(t, path, mtime) ==
    t \cup {Entry(path, EmptyHash, Directory, NullMeta, mtime, 0, Depth(path))}

P_cSlash == <<"c", "/">>
P_dotdot_g == <<".", ".", "/", "g">>

\* The (source, dest) pairs moveEntry is called with.
MoveArgs ==
    {<<P_af, P_abf>>, <<P_g, P_abg>>, <<P_g, P_af>>, <<P_a, P_c>>, <<P_a, P_cd>>,
     <<P_c, P_a>>, <<P_af, P_a>>, <<P_a, P_g>>, <<P_g, P_g>>}

\* The pairs of the moves made back and forth, of the moves of a directory
\* whose name holds a LIKE wildcard, and of the moves with a bad argument.
MovePairs ==
    {<<P_af, P_abf>>, <<P_abf, P_af>>, <<P_g, P_af>>, <<P_af, P_g>>,
     <<P_a, P_c>>, <<P_c, P_a>>, <<P_af, P_a>>, <<P_a, P_g>>, <<P_g, P_g>>,
     <<P_u, P_c>>, <<P_c, P_u>>, <<P_a, P_cSlash>>, <<P_dotdot_g, P_g>>}

\* utils::hasDotNotation(path): some '/'-separated segment is "." or "..".
hasDotNotation(path) ==
    \E i, j \in 1..Len(path) :
        /\ i <= j
        /\ i = 1 \/ path[i - 1] = "/"
        /\ j = Len(path) \/ path[j + 1] = "/"
        /\ SubSeq(path, i, j) \in {<<".">>, <<".", ".">>}

\* The argument checks of moveEntry with those of dest left out.
MoveArgsBad_sourceOnly(source, dest) ==
    \/ source[Len(source)] \in {"/", "\\"}
    \/ hasDotNotation(source)

\* The argument checks of moveEntry that need no row.
MoveArgsBad(source, dest) ==
    \/ source[Len(source)] \in {"/", "\\"}
    \/ hasDotNotation(source)
    \/ dest[Len(dest)] \in {"/", "\\"}
    \/ hasDotNotation(dest)

\* moveEntry up to BEGIN EXCLUSIVE TRANSACTION.
MoveBegin(source, dest) ==
    /\ CanCall
    /\ LET o == StartOp("move", <<source, dest>>)
           sourceExists == getEntry(rows, source)
           destExists == getEntry(rows, dest)
           sourceIsDir == RowAt(rows, source).type = Directory
       IN
       IF MoveArgsBad(source, dest)
       THEN Finish(o, "error") /\ UNCHANGED txn
       ELSE IF source = dest
       THEN Finish(o, "noop") /\ UNCHANGED txn
       ELSE IF \/ ~sourceExists
               \/ destExists /\ sourceIsDir
               \/ destExists /\ RowAt(rows, dest).type = Directory
       THEN Finish(o, "error") /\ UNCHANGED txn
       ELSE /\ txn' = TRUE
            /\ op' = [o EXCEPT !.began = TRUE, !.destExists = destExists,
                               !.todo = IF sourceIsDir THEN listFolderPaths(rows, source)
                                        ELSE {}]
            /\ pc' = IF sourceIsDir THEN "moveDir" ELSE "moveFile"
    /\ UNCHANGED <<fs, build, rows, committed, lastEdit, prev>>

\* Moving a file: the entry at dest is deleted, the source row rewritten.
MoveFile ==
    /\ pc = "moveFile"
    /\ LET source == op.paths[1]
           dest == op.paths[2]
           t == IF op.destExists THEN deleteEntry(rows, dest) ELSE rows
       IN
       /\ rows' = replacePath(t, source, dest)
       /\ op' = [op EXCEPT !.del = IF op.destExists THEN {dest} ELSE {},
                           !.upd = {source}]
    /\ pc' = "moveCommit"
    /\ committed' = Committed(rows')
    /\ UNCHANGED <<fs, build, txn, lastEdit, prev>>

\* newPath with the substr offset one too far.
MovedPath_skipsOne(source, dest, path) == dest \o Drop(path, Len(source) + 1)

\* newPath = dest + path.substr(source.length()).
MovedPath(source, dest, path) == dest \o Drop(path, Len(source))

\* Moving a directory: one path of listFolderPaths is rewritten.
MoveFolderPath ==
    /\ pc = "moveDir"
    /\ \E path \in op.todo :
        LET newPath == MovedPath(op.paths[1], op.paths[2], path) IN
        /\ rows' = replacePath(deleteEntry(rows, newPath), path, newPath)
        /\ op' = [op EXCEPT !.todo = @ \ {path}, !.upd = @ \cup {path},
                            !.del = @ \cup (IF HasRow(rows, newPath) THEN {newPath} ELSE {})]
    /\ pc' = pc
    /\ committed' = Committed(rows')
    /\ UNCHANGED <<fs, build, txn, lastEdit, prev>>

\* createMissingFolders: the consistency query is run.
CreateMissingFolders ==
    /\ pc = "moveDir"
    /\ op.todo = {}
    /\ pc' = "moveFolders"
    /\ op' = [op EXCEPT !.todo = FolderConsistencyQuery(rows)]
    /\ UNCHANGED <<fs, build, rows, committed, txn, lastEdit, prev>>

\* createMissingFolders: addFolder for one result row; the insert fails when
\* the path already has a row (path is the primary key of entries).
AddMissingFolder ==
    /\ pc = "moveFolders"
    /\ \E p \in op.todo, now \in 1..MaxMtime :
        LET folder == FolderOf(p) IN
        IF HasRow(rows, folder)
        THEN /\ Finish([op EXCEPT !.todo = @ \ {p}], "error")
             /\ UNCHANGED <<rows, committed>>
        ELSE /\ rows' = addFolder(rows, folder, now)
             /\ committed' = Committed(rows')
             /\ pc' = pc
             /\ op' = [op EXCEPT !.todo = @ \ {p}, !.folders = @ \cup {folder}]
    /\ UNCHANGED <<fs, build, txn, lastEdit, prev>>

\* COMMIT and setLastUpdate.
MoveCommit ==
    /\ \/ pc = "moveCommit"
       \/ pc = "moveFolders" /\ op.todo = {}
    /\ committed' = rows
    /\ txn' = FALSE
    /\ lastEdit' = lastEdit + 1
    /\ Finish(op, "ok")
    /\ UNCHANGED <<fs, build, rows, prev>>

\* ------------------------------------------------------------ environment

\* A file of the tree changes on disk.
FsChange(p, node) ==
    /\ fs' = [fs EXCEPT ![p] = node]
    /\ prev' = NoPrev
    /\ op' = IF pc = "idle" THEN op ELSE [op EXCEPT !.dirty = TRUE]
    /\ UNCHANGED <<build, rows, committed, txn, lastEdit, pc>>

\* The file is touched: a new mtime, the content kept.
Touch(p) ==
    /\ pc = "idle"
    /\ fs[p].kind = "file"
    /\ fs[p].mtime < MaxMtime
    /\ FsChange(p, FileNode(fs[p].content, fs[p].mtime + 1))

\* The file is rewritten: a new content and a new mtime.
Write(p) ==
    /\ pc = "idle"
    /\ fs[p].kind = "file"
    /\ fs[p].mtime < MaxMtime
    /\ FsChange(p, FileNode(3 - fs[p].content, fs[p].mtime + 1))

\* The file gets a new content and keeps its mtime.
Overwrite(p) ==
    /\ pc = "idle"
    /\ fs[p].kind = "file"
    /\ FsChange(p, FileNode(3 - fs[p].content, fs[p].mtime))

\* The file is deleted, between two calls or while addToIndex or syncIndex
\* walks its list.
Unlink(p) ==
    /\ pc \in {"idle", "add", "sync"}
    /\ fs[p].kind = "file"
    /\ FsChange(p, NoFile)

\* A build of an indexed file leaves .ddb/build/<hash>.
BuildFolder ==
    /\ pc = "idle"
    /\ \E e \in committed :
        /\ e.hash = "h1"
        /\ e.hash \notin build
        /\ build' = build \cup {e.hash}
    /\ UNCHANGED <<fs, rows, committed, txn, lastEdit, pc, op, prev>>

\* The handle is closed and the database opened again: a transaction left
\* open is rolled back by the store.
Reopen ==
    /\ pc = "idle"
    /\ txn
    /\ rows' = committed
    /\ txn' = FALSE
    /\ UNCHANGED <<fs, build, committed, lastEdit, pc, op, prev>>


\* The caller goes on after a call returned or threw.
Return ==
    /\ pc = "done"
    /\ pc' = "idle"
    /\ op' = NoOp
    /\ prev' = IF op.name = "add" /\ op.outcome = "ok" /\ ~op.dirty
               THEN [name |-> op.name, paths |-> op.paths, pre |-> {}, folders |-> {},
                     order |-> <<>>]
               ELSE NoPrev
    /\ UNCHANGED <<fs, build, rows, committed, txn, lastEdit>>

\* The caller goes on after a move and keeps the table it had before it and
\* the folders the move added.
ReturnMoved ==
    /\ pc = "done"
    /\ op.name = "move"
    /\ op.outcome = "ok"
    /\ pc' = "idle"
    /\ op' = NoOp
    /\ prev' = [name |-> op.name, paths |-> op.paths, pre |-> op.pre,
                folders |-> op.folders, order |-> <<>>]
    /\ UNCHANGED <<fs, build, rows, committed, txn, lastEdit>>

\* The caller goes on after an add and keeps the order in which the add
\* listed its paths.
ReturnListed ==
    /\ pc = "done"
    /\ op.name = "add"
    /\ op.outcome = "ok"
    /\ ~op.dirty
    /\ pc' = "idle"
    /\ op' = NoOp
    /\ prev' = [name |-> op.name, paths |-> op.paths, pre |-> op.pre, folders |-> {},
                order |-> op.list]
    /\ UNCHANGED <<fs, build, rows, committed, txn, lastEdit>>

\* The files of a freshly initialized working tree.
InitFs ==
    [p \in FsPaths |->
        IF p \in {P_root, P_a, P_u, DDB_FOLDER} THEN DirNode
        ELSE IF p \in {P_ab, P_abf} THEN NoFile
        ELSE IF p = P_af THEN FileNode(1, 1)
        ELSE FileNode(3, 1)]

Init ==
    /\ fs = InitFs
    /\ build = {}
    /\ rows = {}
    /\ committed = {}
    /\ txn = FALSE
    /\ lastEdit = 0
    /\ pc = "idle"
    /\ op = NoOp
    /\ prev = NoPrev

Next ==
    \/ \E paths \in AddInputs, callback \in BOOLEAN : AddBegin(paths, callback)
    \/ AddEntry
    \/ AddCommit
    \/ \E paths \in RemoveInputs, callback \in BOOLEAN : RemoveBegin(paths, callback)
    \/ RemoveNextInput
    \/ RemoveNextEntry
    \/ DeleteScan
    \/ DeleteExec
    \/ RemoveEndInput
    \/ RemoveFinish
    \/ SyncBegin
    \/ SyncEntry
    \/ SyncDeleteBuild
    \/ SyncCommit
    \/ \E m \in MoveArgs : MoveBegin(m[1], m[2])
    \/ MoveFile
    \/ MoveFolderPath
    \/ CreateMissingFolders
    \/ AddMissingFolder
    \/ MoveCommit
    \/ Touch(P_af)
    \/ Write(P_af)
    \/ Unlink(P_af)
    \/ BuildFolder
    \/ Reopen
    \/ Return

Spec == Init /\ [][Next]_vars

\* deleteFromIndex(db, query, false) called on its own, on an index of one
\* file entry.
QueryChars == {"a", "/", "%", "_", "*"}
PathChars == {"a", "/", "%", "_"}
Queries == UNION {[1..n -> QueryChars] : n \in 0..MaxQuery}
StoredPaths == UNION {[1..n -> PathChars] : n \in 1..MaxPath}

InitDelete ==
    /\ fs = [p \in FsPaths |-> IF p = P_root THEN DirNode ELSE NoFile]
    /\ build = {}
    /\ \E path \in StoredPaths :
        rows = {Entry(path, FileHash(1), Generic, FileMeta, 1, 1, CountSlash(path))}
    /\ committed = rows
    /\ txn = FALSE
    /\ lastEdit = 0
    /\ pc = "rmScan"
    /\ \E query \in Queries :
        op = [NoOp EXCEPT !.name = "delete", !.outcome = "running", !.pre = rows,
                          !.paths = <<query>>,
                          !.calls = <<[query |-> query, isFolder |-> FALSE]>>]
    /\ prev = NoPrev

NextDelete ==
    \/ DeleteScan
    \/ DeleteExec

SpecDelete == InitDelete /\ [][NextDelete]_vars

\* addToIndex of whole trees and syncIndex, with every change of the file.
NextFiles ==
    \/ \E paths \in TreeInputs : AddBegin(paths, FALSE)
    \/ AddEntry
    \/ AddCommit
    \/ SyncBegin
    \/ SyncEntry
    \/ SyncDeleteBuild
    \/ SyncCommit
    \/ Touch(P_af)
    \/ Write(P_af)
    \/ Overwrite(P_af)
    \/ Unlink(P_af)
    \/ Return

SpecFiles == Init /\ [][NextFiles]_vars

\* addToIndex of whole trees and moveEntry.
NextMove ==
    \/ \E paths \in TreeInputs : AddBegin(paths, FALSE)
    \/ AddEntry
    \/ AddCommit
    \/ \E m \in MovePairs : MoveBegin(m[1], m[2])
    \/ MoveFile
    \/ MoveFolderPath
    \/ CreateMissingFolders
    \/ AddMissingFolder
    \/ MoveCommit
    \/ Return
    \/ ReturnMoved

SpecMove == Init /\ [][NextMove]_vars

\* ---------------------------------------------------------- deeper tree

\* addToIndex of files below two directories, of lists with a bad input and
\* with a callback, in a tree that holds a/b/f as well.
InitAdd ==
    /\ fs = [InitFs EXCEPT ![P_ab] = DirNode, ![P_abf] = FileNode(2, 1)]
    /\ build = {}
    /\ rows = {}
    /\ committed = {}
    /\ txn = FALSE
    /\ lastEdit = 0
    /\ pc = "idle"
    /\ op = NoOp
    /\ prev = NoPrev

NextAdd ==
    \/ \E paths \in FileInputs, callback \in BOOLEAN : AddBegin(paths, callback)
    \/ AddEntry
    \/ AddCommit
    \/ Touch(P_abf)
    \/ Write(P_abf)
    \/ Unlink(P_abf)
    \/ Reopen
    \/ Return
    \/ ReturnListed

SpecAdd == InitAdd /\ [][NextAdd]_vars

\* ------------------------------------------------------- match, expansion

Depths == (0 - 1)..MaxDepth

\* The number of directories between the start d of a walk and the path p
\* below it: recursive_directory_iterator::depth().
WalkDepth(d, p) == CountSlash(p) - (IF d = P_root THEN 0 ELSE CountSlash(d) + 1)

\* getPathList(paths, true, maxDepth) for one input: with a positive
\* maxDepth the walk does not go below the entries of depth maxDepth - 1.
PathListOf(p, maxDepth) ==
    IF Filename(p) = DDB_FOLDER THEN <<>>
    ELSE IF IsDirectory(p)
    THEN SelectSeq(Walk(p), LAMBDA q : maxDepth > 0 => WalkDepth(p, q) <= maxDepth - 1)
    ELSE <<p>>

RECURSIVE getPathList(_, _)
getPathList(paths, maxDepth) ==
    IF paths = <<>> THEN <<>>
    ELSE PathListOf(Head(paths), maxDepth) \o getPathList(Tail(paths), maxDepth)

\* expandPathList(paths, recursive, maxRecursionDepth).
ExpandPathList(paths, recursive, maxRecursionDepth) ==
    /\ pc = "idle"
    /\ LET o == [NoOp EXCEPT !.name = "expand", !.paths = paths, !.pre = rows,
                             !.preEdit = lastEdit, !.recursive = recursive,
                             !.maxDepth = maxRecursionDepth]
       IN
       IF ~recursive THEN Finish([o EXCEPT !.out = paths], "ok")
       ELSE IF \E i \in 1..Len(paths) : Filename(paths[i]) # DDB_FOLDER /\ ~Exists(paths[i])
       THEN Finish(o, "error")
       ELSE Finish([o EXCEPT !.out = getPathList(paths, maxRecursionDepth)], "ok")
    /\ UNCHANGED <<fs, build, rows, committed, txn, lastEdit, prev>>

\* getMatchingEntries(db, path, maxRecursionDepth, isFolder).
Match(path, maxRecursionDepth, isFolder) ==
    /\ pc = "idle"
    /\ LET o == [NoOp EXCEPT !.name = "match", !.paths = <<path>>, !.pre = rows,
                             !.preEdit = lastEdit, !.isFolder = isFolder,
                             !.maxDepth = maxRecursionDepth]
           sanitized == IF sanitize_query_param(path) = <<>> THEN <<"%">>
                        ELSE sanitize_query_param(path)
           pat == sanitized \o (IF isFolder THEN <<"/", "/", "%">> ELSE <<>>)
           found == {e \in rows : /\ Like(pat, e.path, EscapeChar)
                                  /\ maxRecursionDepth > 0 => e.depth <= maxRecursionDepth - 1}
       IN
       IF maxRecursionDepth < 0 THEN Finish(o, "error")
       ELSE Finish([o EXCEPT !.todo = PathsOf(found)], "ok")
    /\ UNCHANGED <<fs, build, rows, committed, txn, lastEdit, prev>>

ExpandInputs == {<<P_a>>, <<P_root>>, <<P_g, P_ab>>, <<P_c>>}
MatchQueries == {P_a, P_star, P_root}

\* match and the path expansion on the deeper tree and its index.
NextList ==
    \/ AddBegin(<<P_a>>, FALSE)
    \/ AddEntry
    \/ AddCommit
    \/ \E paths \in ExpandInputs, recursive \in BOOLEAN, depth \in Depths :
        ExpandPathList(paths, recursive, depth)
    \/ \E path \in MatchQueries, depth \in Depths, isFolder \in BOOLEAN :
        Match(path, depth, isFolder)
    \/ Unlink(P_abf)
    \/ Return

SpecList == InitAdd /\ [][NextList]_vars

\* --------------------------------------------------------------------- open

\* Absolute directories: the filesystem root, /w with /w/a and /w/a/b below
\* it, and /v.
FsRoot == <<"/">>
D_w == <<"/", "w">>
D_wa == <<"/", "w", "/", "a">>
D_wab == <<"/", "w", "/", "a", "/", "b">>
D_v == <<"/", "v">>
OpenDirs == {FsRoot, D_w, D_wa, D_wab, D_v}

\* parent_path() that gives the path itself.
parent_path_self(d) == d

\* fs::path::parent_path() of an absolute directory; the root is its own
\* parent.
parent_path(d) ==
    LET slashes == {i \in 1..Len(d) : d[i] = "/"}
        last == CHOOSE i \in slashes : \A j \in slashes : j <= i
    IN IF last = 1 THEN FsRoot ELSE SubSeq(d, 1, last - 1)

\* open(directory, traverseUp) is called.  trees are the directories that
\* hold .ddb/dbase.sqlite, broken those of them whose file has no table
\* 'entries'.
OpenBegin(directory, traverseUp, trees, broken) ==
    /\ pc = "idle"
    /\ pc' = "open"
    /\ op' = [NoOp EXCEPT !.name = "open", !.outcome = "running",
                          !.paths = <<directory>>, !.cur = directory,
                          !.traverseUp = traverseUp, !.trees = trees, !.broken = broken]
    /\ UNCHANGED <<fs, build, rows, committed, txn, lastEdit, prev>>

\* One activation of open: the directory op.cur is examined.
OpenStep ==
    /\ pc = "open"
    /\ LET d == op.cur
           o == [op EXCEPT !.count = @ + 1]
       IN
       IF d \notin op.trees
       THEN IF ~op.traverseUp \/ parent_path(d) = d
            THEN Finish(o, "notree")
            ELSE pc' = pc /\ op' = [o EXCEPT !.cur = parent_path(d)]
       ELSE IF d \in op.broken
            THEN Finish(o, "dberror")
            ELSE Finish(o, "ok")
    /\ UNCHANGED <<fs, build, rows, committed, txn, lastEdit, prev>>

NextOpen ==
    \/ \E directory \in OpenDirs, traverseUp \in BOOLEAN, trees \in SUBSET OpenDirs :
        \E broken \in SUBSET trees : OpenBegin(directory, traverseUp, trees, broken)
    \/ OpenStep
    \/ Return

\* open calls itself and does nothing else in between: a pending activation
\* runs.
SpecOpen == Init /\ [][NextOpen]_vars /\ WF_vars(OpenStep)

\* ----------------------------------------------------------- moved files

\* The index addToIndex({a, g}) leaves of the tree: the directory a, the
\* files a/f and g.
InitFolders ==
    /\ fs = InitFs
    /\ build = {}
    /\ rows = {parseEntry(p) : p \in {P_a, P_af, P_g}}
    /\ committed = rows
    /\ txn = FALSE
    /\ lastEdit = 0
    /\ pc = "idle"
    /\ op = NoOp
    /\ prev = NoPrev

\* The moves of the two files into the folder a/b, which has no entry, and
\* back, and the moves of the directory a.
FolderPairs ==
    {<<P_af, P_abf>>, <<P_g, P_abg>>, <<P_abf, P_af>>, <<P_abg, P_g>>,
     <<P_a, P_c>>, <<P_c, P_a>>}

NextFolders ==
    \/ \E m \in FolderPairs : MoveBegin(m[1], m[2])
    \/ MoveFile
    \/ MoveFolderPath
    \/ CreateMissingFolders
    \/ AddMissingFolder
    \/ MoveCommit
    \/ Reopen
    \/ Return

SpecFolders == InitFolders /\ [][NextFolders]_vars

\* ------------------------------------------------------------------ claims

Running == pc \notin {"idle", "done"}
Returned(name, outcome) == pc = "done" /\ op.name = name /\ op.outcome = outcome

\* C1: when the progress callback of addToIndex returns false, the
\* transaction is rolled back: once the call has returned, no transaction is
\* open and the index holds exactly the rows it held before the call.
C1_CancelRollsBack ==
    Returned("add", "cancelled") => (~txn /\ rows = op.pre /\ committed = op.pre)

\* C2: every row change of an operation happens inside the one exclusive
\* transaction that operation opened, so the committed table changes at most
\* once per operation, from the table the operation found.
C2_OneExclusiveTransaction ==
    [][/\ (Running /\ rows' # rows) => (txn /\ op.began)
       /\ (committed' # committed) => committed = op.pre]_vars

\* C3: when add, sync or move ends with an error after its transaction has
\* begun, the transaction is aborted and the index is left with exactly the
\* rows it had before the operation.
C3_ErrorAbortsTransaction ==
    (pc = "done" /\ op.name \in {"add", "sync", "move"} /\ op.outcome = "error" /\ op.began)
        => (~txn /\ rows = op.pre /\ committed = op.pre)

\* C4: in every committed state left by add, remove, sync and move, every
\* proper '/'-separated prefix of an entry's path is the path of a Directory
\* entry.
C4_AncestorsIndexed ==
    pc \in {"idle", "done"} =>
        \A e \in committed : \A p \in Ancestors(e.path) :
            \E d \in committed : d.path = p /\ d.type = Directory

\* C5: every entry's depth is the number of '/' of its path, in the
\* committed table and in the handle's view, rows rewritten by move and
\* folders made by createMissingFolders included.
C5_DepthIsSlashCount ==
    \A e \in committed \cup rows : e.depth = CountSlash(e.path)

\* C5 witness: a committed move of a directory that rewrote a row to a
\* deeper path and made a folder below the root.
C5_Witness ==
    /\ Returned("move", "ok")
    /\ \E f \in op.folders : CountSlash(f) > 0 /\ HasRow(committed, f)
    /\ \E e \in committed : e.type # Directory /\ e.depth = 2 /\ ~HasRow(op.pre, e.path)

\* C6: every Directory entry has an empty hash, size 0, null meta and no
\* geometry, whether add made it or createMissingFolders did.
C6_DirectoriesBare ==
    \A e \in committed \cup rows :
        e.type = Directory =>
            /\ e.hash = EmptyHash
            /\ e.size = 0
            /\ e.meta = NullMeta
            /\ e.point_geom = NoGeom
            /\ e.polygon_geom = NoGeom

\* C6 witness: the committed table holds a directory row made by add and
\* one made by createMissingFolders in the move that just returned.
C6_Witness ==
    /\ Returned("move", "ok")
    /\ \E f \in op.folders : HasRow(committed, f) /\ RowAt(committed, f).type = Directory
    /\ \E e \in committed : e.type = Directory /\ e.path \notin op.folders

\* C7: when an operation has completed, the build folder of every entry it
\* removed or whose hash it changed no longer exists.
C7_BuildInvalidated ==
    (pc = "done" /\ op.outcome = "ok") =>
        \A e \in op.pre :
            (/\ e.hash # EmptyHash
             /\ \/ e.path \in op.del
                \/ op.name \in {"add", "sync"} /\ e.path \in op.upd)
                => e.hash \notin build

\* C8: a step of an operation that deletes an entry with a non-empty hash,
\* or changes that hash, finds the build folder of the stored hash already
\* removed.
C8_BuildRemovedFirst ==
    [][\A h \in Hashes :
          (/\ Running
           /\ Cardinality({e \in rows' : e.hash = h}) < Cardinality({e \in rows : e.hash = h}))
              => h \notin build]_vars

\* C9: an add that follows a committed add of the same paths, with no file
\* changed since that add began, inserts and updates no row, calls no
\* callback and leaves the table as the first add left it.
C9_SecondAddNoOp ==
    (op.name = "add" /\ prev.name = "add" /\ prev.paths = op.paths /\ ~op.dirty)
        => /\ op.ins = {} /\ op.upd = {} /\ op.cbs = 0
           /\ rows = op.pre /\ committed = op.pre
           /\ op.outcome \in {"running", "ok"}

\* C9 witness: the second add of the same paths has committed on a table
\* that holds rows.
C9_Witness ==
    /\ Returned("add", "ok")
    /\ prev.name = "add" /\ prev.paths = op.paths /\ ~op.dirty
    /\ committed # {}
    /\ lastEdit = op.preEdit + 1

\* The paths the add of these inputs processed (getIndexPathList).
AddedPaths(paths) == SeqToSet(ListFiles(paths)) \cup ListDirs(paths)

\* C10 as stated: a sync that follows a committed add, with no file changed
\* in between, deletes and updates no row, prints no status line and leaves
\* the last-edit stamp as it was.
C10_SyncAfterAddNoOp ==
    (op.name = "sync" /\ prev.name = "add" /\ ~op.dirty)
        => /\ op.del = {} /\ op.upd = {} /\ op.out = <<>>
           /\ lastEdit = op.preEdit

\* C10 amended: such a sync deletes and updates no row at a path the add
\* processed; when every row of the table is at such a path, it deletes and
\* updates no row, prints no status line and leaves the last-edit stamp.
C10_SyncKeepsAdded ==
    (op.name = "sync" /\ prev.name = "add" /\ ~op.dirty)
        => /\ (op.del \cup op.upd) \cap AddedPaths(prev.paths) = {}
           /\ PathsOf(op.pre) \subseteq AddedPaths(prev.paths)
                 => /\ op.del = {} /\ op.upd = {} /\ op.out = <<>>
                    /\ lastEdit = op.preEdit
                    /\ rows = op.pre /\ committed = op.pre

\* C10 witness: a sync has committed right after an add that processed
\* every row of a table that is not empty.
C10_Witness ==
    /\ Returned("sync", "ok")
    /\ prev.name = "add" /\ ~op.dirty
    /\ op.pre # {}
    /\ PathsOf(op.pre) \subseteq AddedPaths(prev.paths)

\* The call that just returned is move(b, a), made right after move(a, b)
\* returned successfully.
MovedBack ==
    /\ Returned("move", "ok")
    /\ prev.name = "move"
    /\ prev.paths = <<op.paths[2], op.paths[1]>>

HasWildcard(p) == \E i \in 1..Len(p) : p[i] \in {"_", "%"}

StoredMtimes == 0..MaxMtime
StoredHashes == Hashes \cup {EmptyHash}

\* C12: checkUpdate returns Deleted exactly for a path that does not exist,
\* NotModified for a directory, NotModified without hashing for a file whose
\* mtime is the stored one whatever its content, and for a file with another
\* mtime NotModified or Modified as its hash is or is not the stored one;
\* after a sync that ran with the files at rest, the rows deleted are those
\* of the missing paths and the rows updated those of the files with another
\* mtime and another hash.
C12_CheckUpdate ==
    /\ \A p \in FsPaths, m \in StoredMtimes, h \in StoredHashes :
        LET status == checkUpdate(p, m, h) IN
        /\ status = "Deleted" <=> fs[p].kind = "none"
        /\ fs[p].kind = "dir" => status = "NotModified" /\ ~HashesFile(p, m)
        /\ (fs[p].kind = "file" /\ fs[p].mtime = m)
              => status = "NotModified" /\ ~HashesFile(p, m)
        /\ (fs[p].kind = "file" /\ fs[p].mtime # m)
              => /\ HashesFile(p, m)
                 /\ status = (IF h = FileHash(fs[p].content) THEN "NotModified" ELSE "Modified")
    /\ (Returned("sync", "ok") /\ ~op.dirty) =>
        \A r \in op.pre :
            /\ r.path \in op.del <=> fs[r.path].kind = "none"
            /\ r.path \in op.upd <=> /\ fs[r.path].kind = "file"
                                      /\ fs[r.path].mtime # r.mtime
                                      /\ FileHash(fs[r.path].content) # r.hash

\* A sync left alone the row of a file whose content changed under the
\* stored mtime.
C12_Witness ==
    /\ Returned("sync", "ok")
    /\ ~op.dirty
    /\ \E r \in op.pre :
        /\ fs[r.path].kind = "file"
        /\ fs[r.path].mtime = r.mtime
        /\ FileHash(fs[r.path].content) # r.hash
        /\ r \in rows

\* C13: the index holds no entry whose path is .ddb and no entry below a
\* .ddb directory.
C13_NoDdbIndexed ==
    \A e \in committed \cup rows :
        /\ e.path # DDB_FOLDER
        /\ \A q \in Ancestors(e.path) : Filename(q) # DDB_FOLDER

\* C20: a syncIndex that returned moved the last-edit stamp exactly when it
\* deleted or updated a row.
C20_LastEditIffChanged ==
    Returned("sync", "ok") =>
        /\ lastEdit = (IF op.del \cup op.upd # {} THEN op.preEdit + 1 ELSE op.preEdit)
        /\ lastEdit # op.preEdit <=> rows # op.pre

\* A sync deleted a row and the stamp moved.
C20_Witness ==
    /\ Returned("sync", "ok")
    /\ op.del # {}
    /\ rows # op.pre
    /\ lastEdit = op.preEdit + 1

\* C14: removeFromIndex fails exactly when none of its inputs matches an
\* entry of the index it was called on; when it succeeds, no entry matched
\* by an input is left.
C14_FailsOnlyWhenNothingMatched ==
    (pc = "done" /\ op.name = "remove") =>
        LET matched == UNION {getMatchingEntries(op.pre, op.paths[i]) : i \in 1..Len(op.paths)}
        IN /\ op.outcome = "error" <=> matched = {}
           /\ op.outcome = "ok" => matched \cap rows = {}

\* C15: when the callback of removeFromIndex returned false for a matched
\* path, the call leaves every row of the index in place.
C15_RemoveCancelKeepsRows ==
    (pc = "done" /\ op.name = "remove" /\ op.refused) =>
        (rows = op.pre /\ committed = op.pre)

RECURSIVE Glob(_, _)
\* s is pat with every '*' replaced by some string.
Glob(pat, s) ==
    IF pat = <<>> THEN s = <<>>
    ELSE IF Head(pat) = "*" THEN \E k \in 0..Len(s) : Glob(Tail(pat), Drop(s, k))
    ELSE s # <<>> /\ Head(s) = Head(pat) /\ Glob(Tail(pat), Tail(s))

EndsWithSeparator(p) == p # <<>> /\ p[Len(p)] \in {"/", "\\"}

\* C17: moveEntry ends with an error, and with every row and the last-edit
\* stamp as they were, when an endpoint ends with a separator or holds a dot
\* segment, and, for a source other than dest, when source has no entry,
\* when source is a directory and dest has an entry, and when source is a
\* file and dest is a directory; move(p, p) with a well-formed p changes
\* nothing.
C17_MoveRejects ==
    (pc = "done" /\ op.name = "move") =>
        LET source == op.paths[1]
            dest == op.paths[2]
            badArg == \/ EndsWithSeparator(source) \/ EndsWithSeparator(dest)
                      \/ hasDotNotation(source) \/ hasDotNotation(dest)
            sourceIsDir == HasRow(op.pre, source) /\ RowAt(op.pre, source).type = Directory
            destIsDir == HasRow(op.pre, dest) /\ RowAt(op.pre, dest).type = Directory
            badRows == \/ ~HasRow(op.pre, source)
                       \/ sourceIsDir /\ HasRow(op.pre, dest)
                       \/ ~sourceIsDir /\ destIsDir
            unchanged == rows = op.pre /\ committed = op.pre /\ lastEdit = op.preEdit /\ ~txn
        IN /\ (badArg \/ (source # dest /\ badRows)) => (op.outcome = "error" /\ unchanged)
           /\ (~badArg /\ source = dest) => (op.outcome = "noop" /\ unchanged)

\* A move of a directory onto an existing entry was refused.
C17_Witness ==
    /\ Returned("move", "error")
    /\ op.paths[1] # op.paths[2]
    /\ HasRow(op.pre, op.paths[1])
    /\ RowAt(op.pre, op.paths[1]).type = Directory
    /\ HasRow(op.pre, op.paths[2])
    /\ rows = op.pre

\* C18: a file entry moved onto a file entry leaves one row at dest with the
\* source row's hash, type, meta, mtime and size and the depth of dest, no
\* row at source, and every other row as it was.
C18_FileOntoFile ==
    (/\ Returned("move", "ok")
     /\ HasRow(op.pre, op.paths[1]) /\ RowAt(op.pre, op.paths[1]).type # Directory
     /\ HasRow(op.pre, op.paths[2]))
        => LET src == RowAt(op.pre, op.paths[1])
               dst == RowAt(op.pre, op.paths[2])
               new == [src EXCEPT !.path = op.paths[2], !.depth = CountSlash(op.paths[2])]
           IN /\ rows = (op.pre \ {src, dst}) \cup {new}
              /\ committed = rows
              /\ Cardinality({e \in rows : e.path = op.paths[2]}) = 1
              /\ ~HasRow(rows, op.paths[1])

\* A file entry was moved onto a file entry of another hash and depth.
C18_Witness ==
    /\ Returned("move", "ok")
    /\ HasRow(op.pre, op.paths[1]) /\ RowAt(op.pre, op.paths[1]).type # Directory
    /\ HasRow(op.pre, op.paths[2])
    /\ RowAt(op.pre, op.paths[1]).hash # RowAt(op.pre, op.paths[2]).hash
    /\ RowAt(op.pre, op.paths[1]).depth # RowAt(op.pre, op.paths[2]).depth
    /\ HasRow(rows, op.paths[2])

\* C19: a directory moved to a new path takes along the rows at source and
\* below source, each to dest followed by the rest of its path, and every
\* other row that is not at one of those new paths keeps its path.
C19_DirectoryMoveFrame ==
    (/\ Returned("move", "ok")
     /\ HasRow(op.pre, op.paths[1]) /\ RowAt(op.pre, op.paths[1]).type = Directory)
        => LET source == op.paths[1]
               dest == op.paths[2]
               inside == {e \in op.pre : e.path = source \/ Below(source, e.path)}
               targets == {dest \o Drop(e.path, Len(source)) : e \in inside}
           IN /\ \A e \in inside :
                    /\ ~HasRow(rows, e.path)
                    /\ HasRow(rows, dest \o Drop(e.path, Len(source)))
              /\ \A e \in op.pre \ inside : e.path \notin targets => HasRow(rows, e.path)

\* What syncIndex has to do with a row, the files being as they are now.
SyncGone(t) == {r \in t : ~Exists(r.path)}
SyncModified(t) ==
    {r \in t : /\ Exists(r.path)
               /\ ~IsDirectory(r.path)
               /\ fs[r.path].mtime # r.mtime
               /\ FileHash(fs[r.path].content) # r.hash}

\* C21: when no file changed during the call, a syncIndex that returned has
\* deleted exactly the rows whose path is gone from the disk, has replaced
\* exactly the rows whose file differs in mtime and in hash by the freshly
\* parsed entry, has left every other row as it was and inserted none, and
\* has printed one line, D or U with the path, for each deleted or updated
\* row and nothing else.
C21_SyncResult ==
    (Returned("sync", "ok") /\ ~op.dirty) =>
        /\ rows = ((op.pre \ SyncGone(op.pre)) \ SyncModified(op.pre))
                  \cup {parseEntry(r.path) : r \in SyncModified(op.pre)}
        /\ committed = rows
        /\ PathsOf(rows) \subseteq PathsOf(op.pre)
        /\ SeqToSet(op.out) = {<<"D", r.path>> : r \in SyncGone(op.pre)}
                              \cup {<<"U", r.path>> : r \in SyncModified(op.pre)}
        /\ Len(op.out) = Cardinality(SyncGone(op.pre)) + Cardinality(SyncModified(op.pre))

\* A syncIndex returned that updated the row of a rewritten file, printed
\* its one line and left the other rows alone.
C21_Witness ==
    /\ Returned("sync", "ok")
    /\ ~op.dirty
    /\ SyncModified(op.pre) # {}
    /\ op.out = <<<<"U", P_af>>>>
    /\ Cardinality(rows) > 1

\* The directories above a relative path: its prefixes that end before a '/'.
DirsAbove(p) == {SubSeq(p, 1, i - 1) : i \in {j \in 1..Len(p) : p[j] = "/"}}

\* C22: after an add of one file at d1/.../dn/f that returned, the table
\* holds a Directory entry at each of d1, d1/d2, ..., d1/.../dn, one for each
\* depth 0..n-1, and an entry of the file with depth n; the add made no entry
\* of the working root.
C22_FileAddMakesAncestors ==
    (Returned("add", "ok") /\ ~op.dirty /\ Len(op.paths) = 1
        /\ Exists(op.paths[1]) /\ ~IsDirectory(op.paths[1])) =>
        LET f == op.paths[1]
            n == CountSlash(f)
        IN
        /\ \A d \in DirsAbove(f) :
            /\ HasRow(rows, d)
            /\ RowAt(rows, d).type = Directory
            /\ RowAt(rows, d).depth = CountSlash(d)
        /\ {RowAt(rows, d).depth : d \in DirsAbove(f)} = 0..(n - 1)
        /\ HasRow(rows, f)
        /\ RowAt(rows, f).type # Directory
        /\ RowAt(rows, f).depth = n
        /\ P_root \notin op.ins
        /\ ~HasRow(rows, P_root)
        /\ committed = rows

\* The add of a/b/f into an empty index returned and left a, a/b and a/b/f.
C22_Witness ==
    /\ Returned("add", "ok")
    /\ ~op.dirty
    /\ op.paths = <<P_abf>>
    /\ op.pre = {}
    /\ PathsOf(rows) = {P_a, P_ab, P_abf}

\* An add was called with an input that is empty, lies outside the working
\* root or names nothing on the disk.
AddFailedEarly ==
    /\ op.outcome = "error"
    /\ ~op.began
    /\ ~txn
    /\ rows = op.pre
    /\ committed = op.pre
    /\ lastEdit = op.preEdit
    /\ op.ins = {} /\ op.upd = {} /\ op.seen = <<>>

\* C23 as stated: an add one of whose inputs is empty, does not exist on the
\* disk or lies outside the working root fails before BEGIN: no row and no
\* last-edit stamp changes and none of the other inputs is indexed.
C23_BadInputFails ==
    (pc = "done" /\ op.name = "add" /\ ~op.dirty
        /\ \E i \in 1..Len(op.paths) :
            \/ op.paths[i] = EmptyInput
            \/ IsPrefix(<<".", ".">>, op.paths[i])
            \/ ~Exists(op.paths[i])) => AddFailedEarly

\* C23, amended: the same for an input that is empty, lies outside the
\* working root, or does not exist on the disk and is not named .ddb (an
\* input named .ddb is skipped without a look at the disk).
C23_BadInputFailsUnlessDdb ==
    (pc = "done" /\ op.name = "add" /\ ~op.dirty
        /\ \E i \in 1..Len(op.paths) :
            \/ op.paths[i] = EmptyInput
            \/ IsPrefix(<<".", ".">>, op.paths[i])
            \/ ~Exists(op.paths[i]) /\ Filename(op.paths[i]) # DDB_FOLDER) => AddFailedEarly

\* The add of g and the missing c failed on an index that held rows, and g
\* was not indexed.
C23_Witness ==
    /\ pc = "done"
    /\ op.name = "add"
    /\ op.paths = <<P_g, P_c>>
    /\ op.outcome = "error"
    /\ rows # {}
    /\ ~HasRow(rows, P_g)

\* The directory itself and the directories above it, up to the root.
SelfAndAbove(d) ==
    {d, FsRoot} \cup {SubSeq(d, 1, i - 1) : i \in {j \in 2..Len(d) : d[j] = "/"}}

\* The directories open has to look at and, of those that hold a database,
\* the nearest one.
OpenCandidates ==
    (IF op.traverseUp THEN SelfAndAbove(op.paths[1]) ELSE {op.paths[1]}) \cap op.trees
OpenNearest == CHOOSE d \in OpenCandidates : \A e \in OpenCandidates : Len(e) <= Len(d)

\* What holds of every open that came back, whatever the database file is.
OpenSearch ==
    /\ op.count <= Cardinality(SelfAndAbove(op.paths[1]))
    /\ ~op.traverseUp => op.count = 1 /\ op.cur = op.paths[1]
    /\ OpenCandidates = {} =>
        /\ op.outcome = "notree"
        /\ op.traverseUp => op.cur = FsRoot
    /\ OpenCandidates # {} => op.cur = OpenNearest /\ op.outcome # "notree"

\* C24 as stated: open comes back for every directory, with a handle on the
\* nearest directory, the given one or one above it, that holds
\* .ddb/dbase.sqlite, or with the not-a-working-tree error at the filesystem
\* root; without traverseUp it looks at the given directory only.
C24_OpenTerminates ==
    /\ []((pc = "done" /\ op.name = "open") =>
            /\ OpenSearch
            /\ OpenCandidates # {} => op.outcome = "ok")
    /\ (pc = "open") ~> (pc = "done")

\* C24, amended: the same, where the nearest database gives a handle when
\* it has the table 'entries' and a database error when it has not.
C24_OpenTerminatesValid ==
    /\ []((pc = "done" /\ op.name = "open") =>
            /\ OpenSearch
            /\ OpenCandidates # {} =>
                op.outcome = (IF OpenNearest \in op.broken THEN "dberror" ELSE "ok"))
    /\ (pc = "open") ~> (pc = "done")

\* open(/w/a/b, true) went two directories up and came back with the
\* database of /w, there being another one at the root.
C24_Witness ==
    /\ pc = "done"
    /\ op.name = "open"
    /\ op.paths = <<D_wab>>
    /\ op.traverseUp
    /\ op.trees = {D_w, FsRoot}
    /\ op.outcome = "ok"
    /\ op.cur = D_w
    /\ op.count = 3

\* C25: a call of match or of the recursive path expansion with a negative
\* recursion depth comes back with an error.
C25_NegativeDepthRejected ==
    (pc = "done" /\ op.maxDepth < 0
        /\ (op.name = "match" \/ (op.name = "expand" /\ op.recursive))) =>
        op.outcome = "error"

ParentOf(p) ==
    LET slashes == {i \in 1..Len(p) : p[i] = "/"} IN
    SubSeq(p, 1, (CHOOSE i \in slashes : \A j \in slashes : j <= i) - 1)

\* C27: after the createMissingFolders of a directory move that returned,
\* every entry that is not a directory and has a '/' in its path has a
\* Directory entry at its parent path, and every row createMissingFolders
\* inserted is the parent path of such an entry, with its '/' count as depth;
\* also for a path whose file name occurs in its directory part.
C27_ParentFoldersCreated ==
    (Returned("move", "ok") /\ HasRow(op.pre, op.paths[1])
        /\ RowAt(op.pre, op.paths[1]).type = Directory) =>
        /\ \A e \in rows :
            (e.type # Directory /\ CountSlash(e.path) > 0) =>
                \E d \in rows : d.path = ParentOf(e.path) /\ d.type = Directory
        /\ \A f \in op.folders :
            /\ \E e \in rows : /\ e.type # Directory
                               /\ CountSlash(e.path) > 0
                               /\ ParentOf(e.path) = f
            /\ RowAt(rows, f).depth = CountSlash(f)

\* C28: addToIndex parses an indexed path again, to update its row, only
\* when checkUpdate returned Modified for it; it does not for a path whose
\* file is gone (Deleted).
C28_ReparseOnlyModified ==
    op.name = "add" => \A x \in op.reparsed : x[2] = "Modified"

\* C29: when addToIndex, syncIndex or moveEntry has returned or thrown, in
\* whatever way, the handle has no transaction open, so that the next
\* operation can begin its own.
C29_NoTransactionLeftOpen ==
    (pc = "done" /\ op.name \in {"add", "sync", "move"}) => ~txn

\* C30: when an operation has come back and the committed rows are not the
\* ones it found, the last-edit stamp is later than the one it found; so
\* also for a removeFromIndex that deleted the rows of one input and failed
\* on the next.
C30_ChangedRowsAdvanceLastEdit ==
    (pc = "done" /\ committed # op.pre) => lastEdit > op.preEdit

\* C31: createMissingFolders hands addFolder no path that has a row, and no
\* folder twice: the folders it still has to insert are as many as the
\* result rows left and none of them is in the table, so a directory move
\* that got as far as createMissingFolders does not end in an error and no
\* two entries have the same path.
C31_FoldersInsertedOnce ==
    /\ pc = "moveFolders" =>
        /\ \A p \in op.todo : ~HasRow(rows, FolderOf(p))
        /\ Cardinality({FolderOf(p) : p \in op.todo}) = Cardinality(op.todo)
    /\ (pc = "done" /\ op.name = "move" /\ op.began
            /\ RowAt(op.pre, op.paths[1]).type = Directory) => op.outcome = "ok"
    /\ Cardinality(PathsOf(rows)) = Cardinality(rows)

====
